---- MODULE Spec2Model ----
(***************************************************************************)
(* Model of main.py: the away-reply self-bot.                              *)
(*   - the Config Store (save_config / load_config on config.json),       *)
(*   - process start (main): load, terminal setup, conversational setup,  *)
(*   - the setup bot's handlers (start_handler, credential_handler),      *)
(*   - the main client's handlers (edit_offline_message).                 *)
(* Strings are sequences of one-character strings, so that str.split,     *)
(* str.strip and int() are computed as Python computes them.              *)
(***************************************************************************)
EXTENDS Integers, Sequences, FiniteSets, TLC

\* ------------------------------------------------------------------------
\* Bounds of the model
\* ------------------------------------------------------------------------
\* longest text of a message sent to the setup bot
MaxLen == 5
\* longest api_id string typed at the terminal prompt
MaxIdLen == 2
\* longest text following the /editoff command word
MaxRest == 2
\* the counter of consecutive rejections saturates here
MaxRejections == 2
\* most auto_reply handlers that are in their delay at once
MaxSleeping == 1

\* ------------------------------------------------------------------------
\* Strings
\* ------------------------------------------------------------------------
Digits == {"0", "1", "2", "3", "4", "5", "6", "7", "8", "9"}
Whitespace == {" ", "\n", "\t"}

StringsUpTo(alphabet, n) == UNION {[1..k -> alphabet] : k \in 0..n}

DigitVal(c) ==
    CASE c = "0" -> 0 [] c = "1" -> 1 [] c = "2" -> 2 [] c = "3" -> 3
      [] c = "4" -> 4 [] c = "5" -> 5 [] c = "6" -> 6 [] c = "7" -> 7
      [] c = "8" -> 8 [] c = "9" -> 9

\* int(s) raises ValueError unless s is a non-empty run of digits
\* (signs, underscores and padding are outside the alphabets used here)
IsInt(s) == Len(s) > 0 /\ \A i \in 1..Len(s) : s[i] \in Digits

RECURSIVE IntOf(_)
IntOf(s) ==
    IF s = <<>> THEN 0
    ELSE 10 * IntOf(SubSeq(s, 1, Len(s) - 1)) + DigitVal(s[Len(s)])

\* str.split(): maximal runs of non-whitespace characters
RECURSIVE SplitFrom(_, _, _)
SplitFrom(s, cur, acc) ==
    IF s = <<>> THEN (IF cur = <<>> THEN acc ELSE Append(acc, cur))
    ELSE IF Head(s) \in Whitespace
         THEN SplitFrom(Tail(s), <<>>, IF cur = <<>> THEN acc ELSE Append(acc, cur))
         ELSE SplitFrom(Tail(s), Append(cur, Head(s)), acc)

Split(s) == SplitFrom(s, <<>>, <<>>)

\* str.split(" ", 1): cut at the first space character only
SplitSpace1_partition(s) ==
    IF \E i \in 1..Len(s) : s[i] = " "
    THEN LET i == CHOOSE j \in 1..Len(s) :
                      s[j] = " " /\ \A k \in 1..(j - 1) : s[k] # " "
         IN  <<SubSeq(s, 1, i - 1), SubSeq(s, i + 1, Len(s))>>
    ELSE <<s, <<>>>>

SplitSpace1(s) ==
    IF \E i \in 1..Len(s) : s[i] = " "
    THEN LET i == CHOOSE j \in 1..Len(s) :
                      s[j] = " " /\ \A k \in 1..(j - 1) : s[k] # " "
         IN  <<SubSeq(s, 1, i - 1), SubSeq(s, i + 1, Len(s))>>
    ELSE <<s>>

\* str.strip(): drop leading and trailing whitespace
RECURSIVE LStrip(_)
LStrip(s) ==
    IF s # <<>> /\ Head(s) \in Whitespace THEN LStrip(Tail(s)) ELSE s

RECURSIVE RStrip(_)
RStrip(s) ==
    IF s # <<>> /\ s[Len(s)] \in Whitespace
    THEN RStrip(SubSeq(s, 1, Len(s) - 1)) ELSE s

Strip(s) == RStrip(LStrip(s))

\* ------------------------------------------------------------------------
\* Config Store
\* ------------------------------------------------------------------------
DefaultOfflineMessage ==
    <<"I am currently offline and will get back to you as soon as possible. Thank you!">>

\* config.json does not exist
Absent == [exists |-> FALSE, content |-> <<>>, closed |-> FALSE]

\* the key/value pairs json.dump writes, in the order of the dict literal
JsonDump_swapped(api_id, api_hash, offline_message) ==
    << <<"api_id", api_id>>,
       <<"api_hash", offline_message>>,
       <<"offline_message", api_hash>> >>

JsonDump(api_id, api_hash, offline_message) ==
    << <<"api_id", api_id>>,
       <<"api_hash", api_hash>>,
       <<"offline_message", offline_message>> >>

\* what a call of save_config can do to the file
SaveOutcomes == {"ok", "open_fails", "write_fails", "interrupted"}

\* open(CONFIG_FILE, 'w') truncates the file before anything is written;
\* a write that fails or is interrupted leaves the first n pairs and no
\* closing brace
save_config_append(f, api_id, api_hash, offline_message, outcome, n) ==
    LET dump == JsonDump(api_id, api_hash, offline_message) IN
    CASE outcome = "ok" ->
            [exists |-> TRUE, content |-> f.content \o dump, closed |-> TRUE]
      [] outcome = "open_fails" -> f
      [] OTHER ->
            [exists |-> TRUE, content |-> f.content \o SubSeq(dump, 1, n),
             closed |-> FALSE]

save_config(f, api_id, api_hash, offline_message, outcome, n) ==
    LET dump == JsonDump(api_id, api_hash, offline_message) IN
    CASE outcome = "ok" ->
            [exists |-> TRUE, content |-> dump, closed |-> TRUE]
      [] outcome = "open_fails" -> f
      [] OTHER ->
            [exists |-> TRUE, content |-> SubSeq(dump, 1, n), closed |-> FALSE]

\* what a failing write can leave behind: the empty file open() made, or
\* the start of the document
CutPoints == {0, 1}

NoneConfig == [none |-> TRUE]

JsonValue(content, key) ==
    content[CHOOSE i \in 1..Len(content) : content[i][1] = key][2]

\* the dict json.load makes of a complete document: its keys, whichever
\* they are, with their values
JsonObject(content) ==
    [k \in {"none"} \cup {content[i][1] : i \in 1..Len(content)} |->
        IF k = "none" THEN FALSE ELSE JsonValue(content, k)]

\* load_config: None when the file is missing, json.load's exception when
\* the text is not a complete JSON document, the dict otherwise
load_config(f) ==
    IF ~f.exists THEN [status |-> "ok", config |-> NoneConfig]
    ELSE IF ~f.closed THEN [status |-> "error", config |-> NoneConfig]
    ELSE [status |-> "ok", config |-> JsonObject(f.content)]

\* `not config`: None and the empty dict are both false
Falsy(cfg) == cfg.none \/ DOMAIN cfg = {"none"}

\* d[key] = value
DictSet(d, key, value) ==
    [k \in DOMAIN d \cup {key} |-> IF k = key THEN value ELSE d[k]]

\* ------------------------------------------------------------------------
\* Inputs
\* ------------------------------------------------------------------------
\* what test_client.start() can do
ValidatorOutcomes == {"ok", "rejected", "unreachable"}

\* text messages a counterpart can send to the setup bot
SetupTexts ==
    LET body == StringsUpTo({"1", "a", " "}, MaxLen) IN
    (body \ {<<>>}) \cup
    {<<"/">> \o b : b \in StringsUpTo({"1", "a", " "}, MaxLen - 1)}

\* answers to the two credential prompts of main
IdInputs == StringsUpTo({"1", "a"}, MaxIdLen)
HashInputs == {<<>>, <<"h">>}

\* self-issued messages the filter command("editoff") lets through: the
\* command word alone, or followed by whitespace and anything
EditCommand == <<"/editoff">>
EditTexts ==
    {EditCommand \o r : r \in {x \in StringsUpTo({" ", "x"}, MaxRest) :
                                    x = <<>> \/ Head(x) \in Whitespace}}

\* ------------------------------------------------------------------------
\* State
\* ------------------------------------------------------------------------
VARIABLES
    phase,        \* "boot", "setup_bot", "main", "exited", "killed"
    exitStatus,   \* exit status of the process, meaningful when exited
    file,         \* config.json
    config,       \* the variable config of main()
    mainCreated,  \* the auto_reply_session Client has been constructed
    rejections,   \* consecutive rejected submissions to the setup bot
    sleeping,     \* current_message of each auto_reply handler in its delay
    replyFailed,  \* a reply of auto_reply has failed since the client started
    last          \* the handler that ran last, its input and what it did

vars == <<phase, exitStatus, file, config, mainCreated, rejections,
          sleeping, replyFailed, last>>

Reply(tag, payload) == <<tag, payload>>

\* last.text is the text the handler was given, except for
\* credential_handler, whose text is described by what the handler computes
\* from it: a leading "/", len(parts), and whether int(parts[0]) succeeds.
\* last.verdict is what the validator did when it was called, last.calls
\* how often it was called (for auto_reply: how often message.reply was).
\* private, incoming and me are what the filters see of a message that
\* reaches the main client.  saved is the record handed to save_config by
\* a round trip through the store
NoHandler ==
    [handler |-> "none", text |-> <<>>, arg |-> <<>>,
     command |-> FALSE, tokens |-> 0, numeric |-> FALSE,
     private |-> FALSE, incoming |-> FALSE, me |-> FALSE,
     saved |-> NoneConfig,
     verdict |-> "none", outcome |-> "none", calls |-> 0, replies |-> <<>>]

Init ==
    /\ phase = "boot"
    /\ exitStatus = 0
    /\ file = Absent
    /\ config = NoneConfig
    /\ mainCreated = FALSE
    /\ rejections = 0
    /\ sleeping = <<>>
    /\ replyFailed = FALSE
    /\ last = NoHandler

\* ------------------------------------------------------------------------
\* Setup bot: credential_handler
\* ------------------------------------------------------------------------
\* lines 74-84: what the handler makes of the text before validating
CredentialFormat_first_two(text) ==
    IF Head(text) = "/" THEN "command"
    ELSE IF Len(Split(text)) < 2 THEN "bad_format"
    ELSE IF ~IsInt(Split(text)[1]) THEN "bad_id"
    ELSE "ok"

CredentialFormat(text) ==
    IF Head(text) = "/" THEN "command"
    ELSE IF Len(Split(text)) # 2 THEN "bad_format"
    ELSE IF ~IsInt(Split(text)[1]) THEN "bad_id"
    ELSE "ok"

\* lines 89-95: test_client.start() raising anything is a rejection
ValidatorAccepts_always(validator) == TRUE

ValidatorAccepts(validator) == validator = "ok"

\* What credential_handler does with a text, given what the validator and
\* the store would do if called.  raised is the exception leaving the
\* handler: the last except clause catches every Exception, and
\* SetupCompleteError is one.
credential_handler(text, validator, save) ==
    LET parts == Split(text)
        quiet == [outcome |-> "ignored", calls |-> 0, saves |-> FALSE,
                  api_id |-> 0, api_hash |-> <<>>, replies |-> <<>>,
                  raised |-> "none"]
    IN
    IF CredentialFormat(text) = "command" THEN quiet
    ELSE IF CredentialFormat(text) = "bad_format" THEN
        [quiet EXCEPT !.outcome = "bad_format",
                      !.replies = <<Reply("invalid_format", <<>>)>>]
    ELSE IF CredentialFormat(text) = "bad_id" THEN
        [quiet EXCEPT !.outcome = "bad_id",
                      !.replies = <<Reply("invalid_id", <<>>)>>]
    ELSE
        LET checked == [quiet EXCEPT !.calls = 1,
                                     !.api_id = IntOf(parts[1]),
                                     !.api_hash = parts[2]]
        IN
        IF ~ValidatorAccepts(validator) THEN
            [checked EXCEPT !.outcome = "rejected",
                            !.replies = <<Reply("validating", <<>>),
                                          Reply("invalid_credentials", <<>>)>>]
        ELSE IF save = "ok" THEN
            [checked EXCEPT !.outcome = "saved", !.saves = TRUE,
                            !.replies = <<Reply("validating", <<>>),
                                          Reply("saved", <<>>),
                                          Reply("restart", <<>>),
                                          Reply("error", <<>>)>>]
        ELSE IF save = "interrupted" THEN
            [checked EXCEPT !.outcome = "killed", !.saves = TRUE,
                            !.replies = <<Reply("validating", <<>>)>>]
        ELSE
            [checked EXCEPT !.outcome = "save_failed", !.saves = TRUE,
                            !.replies = <<Reply("validating", <<>>),
                                          Reply("error", <<>>)>>]

\* start_handler: the onboarding text
StartCommand ==
    /\ phase = "setup_bot"
    /\ last' = [NoHandler EXCEPT !.handler = "start", !.outcome = "greeted",
                                 !.replies = <<Reply("setup_message", <<>>)>>]
    /\ UNCHANGED <<phase, exitStatus, file, config, mainCreated, rejections,
                   sleeping, replyFailed>>

\* What the handler computes from one text: the facts last records about
\* it and, for each thing the validator and the store can do, the handler's
\* result.  Texts the handler cannot tell apart give the same submission.
Submission(text) ==
    [command |-> (Head(text) = "/"),
     tokens |-> Len(Split(text)),
     numeric |-> (Split(text) # <<>> /\ IsInt(Split(text)[1])),
     run |-> [validator \in ValidatorOutcomes, save \in SaveOutcomes |->
                 credential_handler(text, validator, save)]]

Submissions == {Submission(text) : text \in SetupTexts}

\* the inputs credential_handler's result depends on
NeedsValidator(sub) == sub.run["ok", "ok"].calls > 0

CredentialMessage ==
    /\ phase = "setup_bot"
    /\ \E sub \in Submissions :
       \E validator \in IF NeedsValidator(sub) THEN ValidatorOutcomes ELSE {"ok"} :
       \E save \in IF sub.run[validator, "ok"].saves THEN SaveOutcomes ELSE {"ok"} :
       \E n \in IF save \in {"write_fails", "interrupted"} THEN CutPoints ELSE {0} :
         LET r == sub.run[validator, save] IN
         /\ file' = IF r.saves
                    THEN save_config(file, r.api_id, r.api_hash,
                                     DefaultOfflineMessage, save, n)
                    ELSE file
         /\ phase' = IF r.outcome = "killed" THEN "killed"
                     ELSE IF r.raised = "SetupCompleteError" THEN "exited"
                     ELSE "setup_bot"
         /\ exitStatus' = 0
         /\ rejections' = IF r.outcome = "rejected"
                          THEN (IF rejections < MaxRejections
                                THEN rejections + 1 ELSE rejections)
                          ELSE 0
         /\ last' = [NoHandler EXCEPT
                        !.handler = "credential",
                        !.command = sub.command,
                        !.tokens = sub.tokens,
                        !.numeric = sub.numeric,
                        !.verdict = IF r.calls > 0 THEN validator ELSE "none",
                        !.outcome = r.outcome,
                        !.calls = r.calls,
                        !.replies = r.replies]
    /\ UNCHANGED <<config, mainCreated, sleeping, replyFailed>>

\* ------------------------------------------------------------------------
\* main(): creating and starting the main client
\* ------------------------------------------------------------------------
\* Client(..., api_id=config['api_id'], api_hash=config['api_hash']) is
\* reached only when both subscripts evaluate: None is not subscriptable,
\* and a dict without the key raises KeyError
CanCreateMain_unchecked(cfg) == TRUE

CanCreateMain(cfg) == ~cfg.none /\ {"api_id", "api_hash"} \subseteq DOMAIN cfg

\* lines 156-194: every Exception is caught, printed, and main returns
main_client(cfg, startOk) ==
    IF ~CanCreateMain(cfg) THEN [created |-> FALSE, phase |-> "exited"]
    ELSE IF ~startOk THEN [created |-> TRUE, phase |-> "exited"]
    ELSE [created |-> TRUE, phase |-> "main"]

\* ------------------------------------------------------------------------
\* main(): process start
\* ------------------------------------------------------------------------
\* `if api_id_str and api_hash`
TerminalSelected(api_id_str, api_hash) == api_id_str # <<>> /\ api_hash # <<>>

\* lines 145-147: any exception of the terminal branch ends the process
TerminalFailure_returns == [exits |-> TRUE, status |-> 0]

TerminalFailure == [exits |-> TRUE, status |-> 1]

\* the terminal branch, lines 130-147
terminal_setup(api_id_str, api_hash, validator, save) ==
    LET failed == [outcome |-> "bad_id", calls |-> 0, saves |-> FALSE,
                   api_id |-> 0, exits |-> TerminalFailure.exits,
                   status |-> TerminalFailure.status]
    IN
    IF ~IsInt(api_id_str) THEN failed
    ELSE
        LET checked == [failed EXCEPT !.calls = 1, !.api_id = IntOf(api_id_str)]
        IN
        IF validator # "ok" THEN [checked EXCEPT !.outcome = "rejected"]
        ELSE IF save = "ok" THEN
            [checked EXCEPT !.outcome = "saved", !.saves = TRUE,
                            !.exits = FALSE, !.status = 0]
        ELSE IF save = "interrupted" THEN
            [checked EXCEPT !.outcome = "killed", !.saves = TRUE]
        ELSE [checked EXCEPT !.outcome = "save_failed", !.saves = TRUE]

\* config.json holds a configuration: straight to the main client
BootLoaded ==
    /\ phase = "boot"
    /\ load_config(file).status = "ok"
    /\ ~Falsy(load_config(file).config)
    /\ \E startOk \in BOOLEAN :
         LET cfg == load_config(file).config
             m == main_client(cfg, startOk)
         IN
         /\ config' = cfg
         /\ mainCreated' = m.created
         /\ phase' = m.phase
         /\ exitStatus' = 0
         /\ last' = [NoHandler EXCEPT !.handler = "loaded",
                        !.outcome = IF m.phase = "main" THEN "started"
                                    ELSE "start_failed"]
    /\ UNCHANGED <<file, rejections, sleeping, replyFailed>>

\* json.load raises: nothing in main catches it
BootCorrupt ==
    /\ phase = "boot"
    /\ load_config(file).status = "error"
    /\ phase' = "exited"
    /\ exitStatus' = 1
    /\ last' = [NoHandler EXCEPT !.handler = "loaded", !.outcome = "corrupt"]
    /\ UNCHANGED <<file, config, mainCreated, rejections, sleeping, replyFailed>>

\* no configuration, and both prompts answered
BootTerminal ==
    /\ phase = "boot"
    /\ load_config(file).status = "ok"
    /\ Falsy(load_config(file).config)
    /\ \E api_id_str \in IdInputs, api_hash \in HashInputs :
       /\ TerminalSelected(api_id_str, api_hash)
       /\ \E validator \in IF terminal_setup(api_id_str, api_hash, "ok", "ok").calls > 0
                            THEN ValidatorOutcomes ELSE {"ok"} :
          \E save \in IF terminal_setup(api_id_str, api_hash, validator, "ok").saves
                      THEN SaveOutcomes ELSE {"ok"} :
          \E n \in IF save \in {"write_fails", "interrupted"} THEN CutPoints ELSE {0} :
          \E startOk \in IF terminal_setup(api_id_str, api_hash, validator, save).exits
                         THEN {TRUE} ELSE BOOLEAN :
            LET r == terminal_setup(api_id_str, api_hash, validator, save)
                written == IF r.saves
                           THEN save_config(file, r.api_id, api_hash,
                                            DefaultOfflineMessage, save, n)
                           ELSE file
                cfg == IF r.exits THEN config ELSE load_config(written).config
                m == IF r.exits THEN [created |-> FALSE, phase |-> "exited"]
                     ELSE main_client(cfg, startOk)
            IN
            /\ file' = written
            /\ config' = cfg
            /\ mainCreated' = m.created
            /\ phase' = IF r.outcome = "killed" THEN "killed" ELSE m.phase
            /\ exitStatus' = r.status
            /\ last' = [NoHandler EXCEPT
                           !.handler = "terminal", !.text = api_id_str,
                           !.arg = api_hash,
                           !.verdict = IF r.calls > 0 THEN validator ELSE "none",
                           !.outcome = r.outcome, !.calls = r.calls]
    /\ UNCHANGED <<rejections, sleeping, replyFailed>>

\* no configuration, and a prompt left empty: the setup bot
BootBot ==
    /\ phase = "boot"
    /\ load_config(file).status = "ok"
    /\ Falsy(load_config(file).config)
    /\ \E api_id_str \in IdInputs, api_hash \in HashInputs, tokenOk \in BOOLEAN :
       /\ ~TerminalSelected(api_id_str, api_hash)
       /\ phase' = IF tokenOk THEN "setup_bot" ELSE "exited"
       /\ exitStatus' = IF tokenOk THEN 0 ELSE 1
       /\ last' = [NoHandler EXCEPT !.handler = "bot", !.text = api_id_str,
                      !.arg = api_hash,
                      !.outcome = IF tokenOk THEN "listening" ELSE "bad_token"]
    /\ UNCHANGED <<file, config, mainCreated, rejections, sleeping, replyFailed>>

\* a termination signal ends setup_app.idle(); setup_with_bot_father returns
\* normally and main goes on to the main client with the config it loaded
SetupInterrupt ==
    /\ phase = "setup_bot"
    /\ \E startOk \in BOOLEAN :
         LET m == main_client(config, startOk) IN
         /\ mainCreated' = m.created
         /\ phase' = m.phase
         /\ exitStatus' = 0
         /\ last' = [NoHandler EXCEPT !.handler = "interrupt",
                        !.outcome = IF m.phase = "main" THEN "started"
                                    ELSE "start_failed"]
    /\ UNCHANGED <<file, config, rejections, sleeping, replyFailed>>

\* a termination signal ends app.idle(); main returns
MainInterrupt ==
    /\ phase = "main"
    /\ phase' = "exited"
    /\ exitStatus' = 0
    /\ last' = [NoHandler EXCEPT !.handler = "interrupt", !.outcome = "stopped"]
    /\ sleeping' = <<>>
    /\ UNCHANGED <<file, config, mainCreated, rejections, replyFailed>>

\* the operator runs the script again: asyncio.run(main())
Restart ==
    /\ phase \in {"exited", "killed"}
    /\ phase' = "boot"
    /\ exitStatus' = 0
    /\ config' = NoneConfig
    /\ mainCreated' = FALSE
    /\ rejections' = 0
    /\ sleeping' = <<>>
    /\ replyFailed' = FALSE
    /\ last' = NoHandler
    /\ UNCHANGED file

\* ------------------------------------------------------------------------
\* Main client: edit_offline_message
\* ------------------------------------------------------------------------
\* What the handler does with a text: IndexError when split(" ", 1) has no
\* second element; otherwise config['offline_message'] is assigned before
\* save_config is called
edit_offline_message(text, save) ==
    LET parts == SplitSpace1(text)
        usage == [outcome |-> "usage", assigns |-> FALSE, saves |-> FALSE,
                  new_message |-> <<>>,
                  replies |-> <<Reply("usage", <<>>)>>]
    IN
    IF Len(parts) < 2 THEN usage
    ELSE
        LET new_message == Strip(parts[2])
            assigned == [usage EXCEPT !.assigns = TRUE, !.saves = TRUE,
                                      !.new_message = new_message]
        IN
        IF save = "ok" THEN
            [assigned EXCEPT !.outcome = "updated",
                             !.replies = <<Reply("updated", new_message)>>]
        ELSE IF save = "interrupted" THEN
            [assigned EXCEPT !.outcome = "killed", !.replies = <<>>]
        ELSE
            [assigned EXCEPT !.outcome = "save_failed",
                             !.replies = <<Reply("error", <<>>)>>]

EditOffMessage ==
    /\ phase = "main"
    /\ \E text \in EditTexts :
       \E save \in IF Len(SplitSpace1(text)) < 2 THEN {"ok"} ELSE SaveOutcomes :
       \E n \in IF save \in {"write_fails", "interrupted"} THEN CutPoints ELSE {0} :
         LET r == edit_offline_message(text, save) IN
         /\ config' = IF r.assigns
                      THEN DictSet(config, "offline_message", r.new_message)
                      ELSE config
         /\ file' = IF r.saves
                    THEN save_config(file, config.api_id, config.api_hash,
                                     r.new_message, save, n)
                    ELSE file
         /\ phase' = IF r.outcome = "killed" THEN "killed" ELSE "main"
         /\ sleeping' = IF r.outcome = "killed" THEN <<>> ELSE sleeping
         /\ exitStatus' = 0
         /\ last' = [NoHandler EXCEPT
                        !.handler = "editoff", !.text = text,
                        !.outcome = r.outcome, !.replies = r.replies]
    /\ UNCHANGED <<mainCreated, rejections, replyFailed>>

\* ------------------------------------------------------------------------
\* Main client: auto_reply
\* ------------------------------------------------------------------------
\* filters.private & filters.incoming & ~filters.me
AutoReplyFilter_any_author(m) == m.private /\ m.incoming

AutoReplyFilter(m) == m.private /\ m.incoming /\ ~m.me

FallbackOfflineMessage == <<"I am currently offline.">>

\* line 181: config.get('offline_message', "I am currently offline.")
CurrentMessage(cfg) ==
    IF "offline_message" \in DOMAIN cfg THEN cfg.offline_message
    ELSE FallbackOfflineMessage

\* line 183: the text replied after the delay is the local current_message
auto_reply_text_fresh(current_message, cfg) == CurrentMessage(cfg)

auto_reply_text(current_message, cfg) == current_message

\* lines 185-186: an exception of message.reply is printed, nothing else
ReplyFailurePhase_raises == "exited"

ReplyFailurePhase == "main"

\* a message other than the /editoff command reaches the main client; when
\* the filter lets it through, auto_reply runs up to its sleep
IncomingMessage ==
    /\ phase = "main"
    /\ \E m \in [private : BOOLEAN, incoming : BOOLEAN, me : BOOLEAN] :
         /\ AutoReplyFilter(m) => Len(sleeping) < MaxSleeping
         /\ sleeping' = IF AutoReplyFilter(m)
                        THEN Append(sleeping, CurrentMessage(config))
                        ELSE sleeping
         /\ last' = [NoHandler EXCEPT
                        !.handler = "incoming",
                        !.private = m.private, !.incoming = m.incoming,
                        !.me = m.me,
                        !.outcome = IF AutoReplyFilter(m) THEN "dispatched"
                                    ELSE "filtered"]
    /\ UNCHANGED <<phase, exitStatus, file, config, mainCreated, rejections,
                   replyFailed>>

\* the oldest sleeping auto_reply wakes up and calls message.reply
AutoReplySend ==
    /\ phase = "main"
    /\ sleeping # <<>>
    /\ \E delivered \in BOOLEAN :
         LET text == auto_reply_text(Head(sleeping), config) IN
         /\ phase' = IF delivered THEN "main" ELSE ReplyFailurePhase
         /\ sleeping' = IF delivered \/ ReplyFailurePhase = "main"
                        THEN Tail(sleeping) ELSE <<>>
         /\ replyFailed' = (replyFailed \/ ~delivered)
         /\ last' = [NoHandler EXCEPT
                        !.handler = "auto_reply", !.text = text,
                        !.private = TRUE, !.incoming = TRUE,
                        !.calls = 1,
                        !.outcome = IF delivered THEN "replied"
                                    ELSE "reply_failed",
                        !.replies = IF delivered THEN <<Reply("auto", text)>>
                                    ELSE <<>>]
    /\ UNCHANGED <<exitStatus, file, config, mainCreated, rejections>>

\* ------------------------------------------------------------------------
\* Specification
\* ------------------------------------------------------------------------
Next ==
    \/ BootLoaded
    \/ BootCorrupt
    \/ BootTerminal
    \/ BootBot
    \/ StartCommand
    \/ CredentialMessage
    \/ SetupInterrupt
    \/ EditOffMessage
    \/ IncomingMessage
    \/ AutoReplySend
    \/ MainInterrupt
    \/ Restart

Spec == Init /\ [][Next]_vars

TypeOK ==
    /\ phase \in {"boot", "setup_bot", "main", "exited", "killed", "store"}
    /\ exitStatus \in {0, 1}
    /\ mainCreated \in BOOLEAN
    /\ rejections \in 0..MaxRejections
    /\ Len(sleeping) <= MaxSleeping
    /\ replyFailed \in BOOLEAN

\* config.json as somebody else may have left it: missing, an empty
\* object, an object without offline_message or without api_hash, a text
\* that is not JSON, or a complete record
Artifacts ==
    LET object(content) == [exists |-> TRUE, content |-> content, closed |-> TRUE]
    IN  {Absent,
         object(<<>>),
         object(<< <<"api_id", 1>>, <<"api_hash", <<"h">>>> >>),
         object(<< <<"api_id", 1>>, <<"offline_message", <<"x">>>> >>),
         [exists |-> TRUE, content |-> <<>>, closed |-> FALSE],
         object(JsonDump(1, <<"h">>, <<"x">>))}

InitArtifacts ==
    /\ phase = "boot"
    /\ exitStatus = 0
    /\ file \in Artifacts
    /\ config = NoneConfig
    /\ mainCreated = FALSE
    /\ rejections = 0
    /\ sleeping = <<>>
    /\ replyFailed = FALSE
    /\ last = NoHandler

ArtifactSpec == InitArtifacts /\ [][Next]_vars

\* ------------------------------------------------------------------------
\* The Config Store on its own: save_config followed by load_config
\* ------------------------------------------------------------------------
\* records save_config is called with: a number, a hash, a message
Configurations ==
    [none : {FALSE},
     api_id : {IntOf(i) : i \in {x \in IdInputs : IsInt(x)}},
     api_hash : StringsUpTo({"1", "a"}, 2) \ {<<>>},
     offline_message : {DefaultOfflineMessage, <<"x">>, <<"x", " ", "x">>}]

InitStore ==
    /\ phase = "store"
    /\ exitStatus = 0
    /\ file \in Artifacts
    /\ config = NoneConfig
    /\ mainCreated = FALSE
    /\ rejections = 0
    /\ sleeping = <<>>
    /\ replyFailed = FALSE
    /\ last = NoHandler

\* save_config returns, then load_config reads the file back
StoreSaveLoad ==
    /\ phase = "store"
    /\ \E rec \in Configurations :
         LET written == save_config(file, rec.api_id, rec.api_hash,
                                    rec.offline_message, "ok", 0)
         IN
         /\ file' = written
         /\ load_config(written).status = "ok"
         /\ config' = load_config(written).config
         /\ last' = [NoHandler EXCEPT !.handler = "roundtrip", !.saved = rec,
                                      !.outcome = "loaded"]
    /\ UNCHANGED <<phase, exitStatus, mainCreated, rejections, sleeping,
                   replyFailed>>

\* save_config raises: nothing is loaded
StoreSaveFails ==
    /\ phase = "store"
    /\ \E rec \in Configurations, save \in {"open_fails", "write_fails"} :
       \E n \in IF save = "write_fails" THEN CutPoints ELSE {0} :
         /\ file' = save_config(file, rec.api_id, rec.api_hash,
                                rec.offline_message, save, n)
         /\ last' = [NoHandler EXCEPT !.handler = "store", !.saved = rec,
                                      !.outcome = "save_failed"]
    /\ UNCHANGED <<phase, exitStatus, config, mainCreated, rejections,
                   sleeping, replyFailed>>

NextStore == StoreSaveLoad \/ StoreSaveFails

RoundTripSpec == InitStore /\ [][NextStore]_vars

\* the process's own start is the only step the program is bound to take;
\* messages and termination signals come when the environment sends them
FairSpec ==
    Spec /\ WF_vars(BootLoaded \/ BootCorrupt \/ BootTerminal \/ BootBot)

\* ------------------------------------------------------------------------
\* Properties
\* ------------------------------------------------------------------------
FileComplete(f) ==
    /\ f.exists
    /\ f.closed
    /\ Len(f.content) = 3
    /\ {f.content[i][1] : i \in 1..3} = {"api_id", "api_hash", "offline_message"}

\* C1: after credential_handler has saved the configuration of an accepted
\* two-token submission, the setup bot eventually stops listening.
C1_SetupBotStopsAfterSave ==
    (phase = "setup_bot" /\ last.handler = "credential" /\ last.outcome = "saved")
        ~> (phase # "setup_bot")

\* C2: a submission whose token count is not 2, or whose first token is not
\* numeric, leaves the setup bot listening, calls the validator not once
\* and leaves config.json as it was.
MalformedSubmission(l) ==
    l.handler = "credential" /\ (l.tokens # 2 \/ ~l.numeric)

C2_MalformedNeverValidated ==
    [][MalformedSubmission(last') =>
          /\ last'.calls = 0
          /\ last'.verdict = "none"
          /\ file' = file
          /\ phase' = "setup_bot"]_vars

C2_Witness ==
    /\ phase = "setup_bot"
    /\ last.handler = "credential"
    /\ last.tokens = 3
    /\ last.numeric
    /\ ~last.command
    /\ last.outcome = "bad_format"

\* C3: a submission the validator rejects leaves the setup bot listening and
\* config.json as it was, however many rejections came before it.
C3_RejectionLoopsWithoutSaving ==
    [][(last'.handler = "credential" /\ last'.verdict = "rejected") =>
          /\ file' = file
          /\ phase' = "setup_bot"
          /\ last'.outcome = "rejected"]_vars

C3_Witness ==
    /\ phase = "setup_bot"
    /\ last.handler = "credential"
    /\ last.verdict = "rejected"
    /\ rejections = MaxRejections
    /\ file = Absent

\* C4: config.json is absent or a complete record of the three fields.
C4_ArtifactAbsentOrComplete == ~file.exists \/ FileComplete(file)

\* C5: the main client is neither created nor running while main's config
\* is None.
C5_MainOnlyWithConfiguration ==
    (mainCreated \/ phase = "main") => ~config.none

C5_Witness ==
    /\ last.handler = "interrupt"
    /\ last.outcome = "start_failed"
    /\ FileComplete(file)
    /\ config.none
    /\ ~mainCreated
    /\ phase = "exited"

\* C6: in the terminal path a rejected pair, or an id that is not a number,
\* ends the process with status 1 after at most one validator call, with
\* config.json untouched and no main client.
TerminalRejected(l) ==
    l.handler = "terminal" /\ (l.verdict = "rejected" \/ ~IsInt(l.text))

C6_TerminalRejectionIsFatal ==
    [][TerminalRejected(last') =>
          /\ phase' = "exited"
          /\ exitStatus' = 1
          /\ file' = file
          /\ ~mainCreated'
          /\ last'.calls <= 1]_vars

C6_Witness ==
    /\ last.handler = "terminal"
    /\ last.verdict = "rejected"
    /\ last.calls = 1
    /\ phase = "exited"
    /\ exitStatus = 1

\* C7: in the terminal path with no config.json, a numeric id and a hash the
\* validator accepts are saved with the default offline message, and the
\* main client is created from exactly that configuration and started.
TerminalAccepted(l) ==
    /\ l.handler = "terminal"
    /\ IsInt(l.text)
    /\ l.verdict = "ok"
    /\ l.outcome \notin {"save_failed", "killed"}

C7_TerminalSavesAndStarts ==
    TerminalAccepted(last) =>
        /\ file = [exists |-> TRUE, closed |-> TRUE,
                   content |-> << <<"api_id", IntOf(last.text)>>,
                                  <<"api_hash", last.arg>>,
                                  <<"offline_message", DefaultOfflineMessage>> >>]
        /\ config = [none |-> FALSE, api_id |-> IntOf(last.text),
                     api_hash |-> last.arg,
                     offline_message |-> DefaultOfflineMessage]
        /\ mainCreated
        /\ phase = "main" \/ (phase = "exited" /\ exitStatus = 0)

C7_Witness ==
    /\ TerminalAccepted(last)
    /\ last.text = <<"1", "1">>
    /\ config.api_id = 11
    /\ phase = "main"

\* C8: offline_message is never the empty string, in main's config and in
\* config.json.
C8_OfflineMessageNonEmpty ==
    /\ ~config.none => config.offline_message # <<>>
    /\ FileComplete(file) => JsonValue(file.content, "offline_message") # <<>>

\* C9: /editoff with nothing after it changes neither main's config nor
\* config.json and is answered by the usage text alone.
C9_BareCommandOnlyReplies ==
    [][(last'.handler = "editoff" /\ last'.text = EditCommand) =>
          /\ config' = config
          /\ file' = file
          /\ phase' = "main"
          /\ last'.replies = <<Reply("usage", <<>>)>>]_vars

C9_Witness ==
    /\ last.handler = "editoff"
    /\ last.text = EditCommand
    /\ last.outcome = "usage"
    /\ phase = "main"

\* C10: once edit_offline_message has finished for a command whose argument
\* is T, non-empty when trimmed, main's config and config.json both hold T
\* trimmed and the reply confirms it; and whatever the command, the two
\* offline messages are equal once the handler has finished.
EditArgument(text) == Strip(SubSeq(text, 2, Len(text)))

C10_EditKeepsMemoryAndFileEqual ==
    (last.handler = "editoff" /\ phase = "main") =>
        /\ FileComplete(file)
        /\ config.offline_message = JsonValue(file.content, "offline_message")
        /\ EditArgument(last.text) # <<>> =>
              /\ config.offline_message = EditArgument(last.text)
              /\ last.replies = <<Reply("updated", EditArgument(last.text))>>

\* C11: an edit command leaves api_id and api_hash as they were, in main's
\* config and in config.json.
C11_EditLeavesIdentityFields ==
    [][(last'.handler = "editoff" /\ FileComplete(file)) =>
          /\ config'.api_id = config.api_id
          /\ config'.api_hash = config.api_hash
          /\ FileComplete(file')
          /\ JsonValue(file'.content, "api_id") = JsonValue(file.content, "api_id")
          /\ JsonValue(file'.content, "api_hash") = JsonValue(file.content, "api_hash")]_vars

\* C12: once the setup flow has written a complete config.json, no later
\* message to the setup bot changes the file.
C12_SetupNeverOverwrites ==
    [][(phase = "setup_bot" /\ FileComplete(file)
          /\ last'.handler \in {"start", "credential"}) => file' = file]_vars

\* C16: when the validator fails because the service is unreachable, the
\* outcome is not the one of rejected credentials and the reply is not the
\* "invalid credentials" text.
C16_UnreachableIsNotInvalid ==
    last.verdict = "unreachable" =>
        /\ last.outcome # "rejected"
        /\ \A i \in 1..Len(last.replies) :
              last.replies[i] # Reply("invalid_credentials", <<>>)

\* C18: the terminal path is taken only when both prompts are answered, the
\* setup bot only when both are left empty.
C18_BranchNeedsFullOrEmptyPair ==
    /\ last.handler = "terminal" => (last.text # <<>> /\ last.arg # <<>>)
    /\ last.handler = "bot" => (last.text = <<>> /\ last.arg = <<>>)

\* C19: an edit command that repeats the text of the edit command just
\* applied changes neither main's config nor config.json.
C19_RepeatedEditChangesNothing ==
    [][(last.handler = "editoff" /\ last.outcome \in {"updated", "usage"}
          /\ last'.handler = "editoff" /\ last'.text = last.text) =>
          (config' = config /\ file' = file)]_vars

\* C13: a message that is private, incoming and not the account's own
\* starts one auto_reply handler, and that handler calls message.reply once,
\* which is one reply sent unless the send fails; any other message starts
\* no handler and gets no reply.
C13_OneReplyPerCounterpartMessage ==
    [][/\ last'.handler = "incoming" =>
            IF last'.private /\ last'.incoming /\ ~last'.me
            THEN Len(sleeping') = Len(sleeping) + 1
            ELSE sleeping' = sleeping /\ last'.replies = <<>>
       /\ last'.handler = "auto_reply" =>
            /\ Len(sleeping) = Len(sleeping') + 1
            /\ last'.calls = 1
            /\ Len(last'.replies) = IF last'.outcome = "replied" THEN 1 ELSE 0]_vars

C13_Witness ==
    /\ phase = "main"
    /\ last.handler = "auto_reply"
    /\ last.outcome = "replied"
    /\ Len(last.replies) = 1
    /\ sleeping = <<>>

\* C14 as stated: the text of a reply is config's offline_message at the
\* time the reply is sent.
C14_ReplyUsesMessageAtSendTime ==
    (last.handler = "auto_reply" /\ last.outcome = "replied") =>
        last.replies = <<Reply("auto", CurrentMessage(config))>>

\* C14 amended: auto_reply reads offline_message when it starts, before the
\* delay, and replies with that text whatever edit_offline_message has done
\* in the meantime.
C14_ReplyUsesMessageAtDispatch ==
    [][/\ (last'.handler = "incoming" /\ last'.outcome = "dispatched") =>
            sleeping' = Append(sleeping, CurrentMessage(config))
       /\ (last'.handler = "auto_reply" /\ last'.outcome = "replied") =>
            last'.replies = <<Reply("auto", Head(sleeping))>>]_vars

C14_Witness ==
    /\ last.handler = "auto_reply"
    /\ last.outcome = "replied"
    /\ last.replies = <<Reply("auto", DefaultOfflineMessage)>>
    /\ config.offline_message = <<"x">>

\* C15: a failing message.reply leaves the main client listening, leaves
\* main's config, config.json and the other sleeping handlers alone, and
\* messages that arrive after it are dispatched and answered as before.
C15_ReplyFailureIsSwallowed ==
    [][/\ (last'.handler = "auto_reply" /\ last'.outcome = "reply_failed") =>
            /\ phase' = "main"
            /\ config' = config
            /\ file' = file
            /\ sleeping' = Tail(sleeping)
       /\ (replyFailed /\ last'.handler = "incoming"
             /\ last'.private /\ last'.incoming /\ ~last'.me) =>
            sleeping' = Append(sleeping, CurrentMessage(config))
       /\ (replyFailed /\ last'.handler = "auto_reply") => last'.calls = 1]_vars

C15_Witness ==
    /\ replyFailed
    /\ phase = "main"
    /\ last.handler = "auto_reply"
    /\ last.outcome = "replied"

\* C17: when config.json exists and is not a complete record of the three
\* fields, process start ends the process: it does not start the setup bot,
\* does not write config.json and does not create the main client.
C17_CorruptArtifactIsFatal ==
    [][(phase = "boot" /\ file.exists /\ ~FileComplete(file)) =>
          /\ phase' = "exited"
          /\ file' = file
          /\ ~mainCreated']_vars

\* C20: whatever config.json held before, a record saved by save_config is
\* the record load_config returns.
C20_SaveLoadRoundTrip ==
    last.handler = "roundtrip" =>
        /\ config = last.saved
        /\ config.api_id = last.saved.api_id
        /\ config.api_hash = last.saved.api_hash
        /\ config.offline_message = last.saved.offline_message

C20_Witness ==
    /\ last.handler = "roundtrip"
    /\ config.api_id = 11
    /\ config.offline_message = <<"x", " ", "x">>
    /\ FileComplete(file)

====
